---------------------------- MODULE Spec2Model ----------------------------
(***************************************************************************)
(* Bell-state circuit builder with error injection and correction          *)
(* (src/src/bell_circuit.py) and the simulation drivers                    *)
(* (src/src/simulations.py).                                               *)
(*                                                                         *)
(* A circuit is the sequence of its instructions.  QuantumCircuit objects  *)
(* are mutable and shared by reference, so a builder carries a heap of     *)
(* circuit objects and the identity of its current one.  The backend is a  *)
(* state-vector simulation with integer amplitudes (every gate used is     *)
(* H, X, Z, CX or CCX, so amplitudes are integers up to a common power of  *)
(* 1/sqrt(2), which cancels in every probability ratio).                   *)
(***************************************************************************)
EXTENDS Integers, Sequences, FiniteSets, TLC

VARIABLES mode,      \* which driver this behaviour runs
          pc,        \* position of the driver
          inp,       \* the arguments the driver was called with
          loop,      \* loop indices of run_all_combinations / run_random_errors
          all_counts,     \* simulations.py: all_counts
          err_to_counts,  \* simulations.py: err_to_counts
          executions,     \* number of backend executions so far
          last,      \* what the last call did (arguments, outcome)
          bld,       \* the BellCircuit object under construction
          rng,       \* state of the process-wide random generator
          runs       \* results of the finished run_random_errors calls

vars == <<mode, pc, inp, loop, all_counts, err_to_counts, executions, last, bld, rng, runs>>

(***************************************************************************)
(* Registers and instructions                                              *)
(***************************************************************************)

\* F applied to the value of v, with v evaluated once (LET v IN F(v)).
Bind(v, F(_)) == CHOOSE r \in {F(x) : x \in {v}} : TRUE

\* One instruction of a circuit: its name and the qubits (and classical bit) it acts on.
Op(name, qs) == [op |-> name, qs |-> qs]

\* Mutant of BellCircuit: the registers are dropped only when both requested
\* counts are 0.
BellCircuit_KeepsOneGroup(n_anc_qubit1, n_anc_qubit2) ==
    [anc_qubit |-> IF n_anc_qubit1 = 0 /\ n_anc_qubit2 = 0
                   THEN << >>
                   ELSE <<n_anc_qubit1, n_anc_qubit2>>,
     heap |-> << << >> >>,
     circuit |-> 1]

\* The BellCircuit object after __init__: the ancilla registers' sizes (an
\* empty list when either requested count is 0), a heap holding one empty
\* circuit, and the current circuit's identity.
BellCircuit(n_anc_qubit1, n_anc_qubit2) ==
    [anc_qubit |-> IF n_anc_qubit1 = 0 \/ n_anc_qubit2 = 0
                   THEN << >>
                   ELSE <<n_anc_qubit1, n_anc_qubit2>>,
     heap |-> << << >> >>,
     circuit |-> 1]

\* self.qubits[qubit - 1]: position of a primary qubit in the circuit.
Primary(qubit) == qubit - 1

\* self.anc_qubit[qubit - 1][k]: position of the ancilla with 0-based index k
\* (registers are laid out qubit, anc_qb1, anc_qb2).
Anc(b, qubit, k) == 2 + (IF qubit = 2 THEN b.anc_qubit[1] ELSE 0) + k

\* Number of qubits of the builder's circuits.
NQubits(b) == 2 + (IF Len(b.anc_qubit) = 0 THEN 0 ELSE b.anc_qubit[1] + b.anc_qubit[2])

\* Result of a method call: the builder afterwards, the exception raised
\* ("none" when it returned) and the identity of the returned circuit (0: None).
Ret(b, exc, ret) == [b |-> b, exc |-> exc, ret |-> ret]

\* self.circuit.<gate>(...): appends to the current circuit object in place.
Emit(b, ops) == [b EXCEPT !.heap[b.circuit] = @ \o ops]

\* Mutant of CopyAppend: the copy always becomes the current circuit.
CopyAppend_AlwaysInPlace(b, ops, in_place) ==
    Ret([b EXCEPT !.heap = Append(@, b.heap[b.circuit] \o ops), !.circuit = Len(b.heap) + 1],
        "none", Len(b.heap) + 1)

\* circuit = self.circuit.copy(); <append ops>; if in_place: self.circuit = circuit
CopyAppend(b, ops, in_place) ==
    LET new == Len(b.heap) + 1
        b1 == [b EXCEPT !.heap = Append(@, b.heap[b.circuit] \o ops)]
    IN  Ret(IF in_place THEN [b1 EXCEPT !.circuit = new] ELSE b1, "none", new)

\* The checks shared by the four gadgets: group selector, then the register
\* lookup self.anc_qubit[qubit - 1] (an IndexError on the empty list), then
\* the size test.
GadgetCheck(b, qubit, need) ==
    IF qubit \notin {1, 2} THEN "ValueError"
    ELSE IF Len(b.anc_qubit) < qubit THEN "IndexError"
    ELSE IF b.anc_qubit[qubit] < need THEN "Exception"
    ELSE "none"

add_zero_bf_corr(b, qubit, in_place) ==
    LET chk == GadgetCheck(b, qubit, 1) IN
    IF chk # "none" THEN Ret(b, chk, 0)
    ELSE CopyAppend(b, << Op("cx", <<Primary(qubit), Anc(b, qubit, 0)>>),
                          Op("cx", <<Anc(b, qubit, 0), Primary(qubit)>>) >>, in_place)

add_x_pf_corr(b, qubit, in_place) ==
    LET chk == GadgetCheck(b, qubit, 1) IN
    IF chk # "none" THEN Ret(b, chk, 0)
    ELSE CopyAppend(b, << Op("h", <<Primary(qubit)>>),
                          Op("cx", <<Primary(qubit), Anc(b, qubit, 0)>>),
                          Op("cx", <<Anc(b, qubit, 0), Primary(qubit)>>),
                          Op("h", <<Primary(qubit)>>) >>, in_place)

add_zero_bf_corr_with_repetition(b, qubit, in_place) ==
    LET chk == GadgetCheck(b, qubit, 2) IN
    IF chk # "none" THEN Ret(b, chk, 0)
    ELSE CopyAppend(b, << Op("cx", <<Primary(qubit), Anc(b, qubit, 0)>>),
                          Op("cx", <<Primary(qubit), Anc(b, qubit, 1)>>),
                          Op("ccx", <<Anc(b, qubit, 0), Anc(b, qubit, 1), Primary(qubit)>>) >>,
                    in_place)

add_x_pf_corr_with_repetition(b, qubit, in_place) ==
    LET chk == GadgetCheck(b, qubit, 2) IN
    IF chk # "none" THEN Ret(b, chk, 0)
    ELSE CopyAppend(b, << Op("h", <<Primary(qubit)>>),
                          Op("cx", <<Primary(qubit), Anc(b, qubit, 0)>>),
                          Op("cx", <<Primary(qubit), Anc(b, qubit, 1)>>),
                          Op("ccx", <<Anc(b, qubit, 0), Anc(b, qubit, 1), Primary(qubit)>>),
                          Op("h", <<Primary(qubit)>>) >>, in_place)

\* Mutant of add_error_gate: the two gates swapped.
add_error_gate_Swapped(b, q, gate) ==
    IF gate = "z" THEN [b EXCEPT !.heap[b.circuit] = @ \o << [op |-> "x", qs |-> <<q>>] >>]
    ELSE IF gate = "x" THEN [b EXCEPT !.heap[b.circuit] = @ \o << [op |-> "z", qs |-> <<q>>] >>]
    ELSE b

\* Mutant of add_error_gate: the string 'y' emits the gates of a Pauli Y.
add_error_gate_PauliY(b, q, gate) ==
    IF gate = "z" THEN Emit(b, << Op("z", <<q>>) >>)
    ELSE IF gate = "x" THEN Emit(b, << Op("x", <<q>>) >>)
    ELSE IF gate = "y" THEN Emit(b, << Op("z", <<q>>), Op("x", <<q>>) >>)
    ELSE b

\* add_error_gate: 'z' and 'x' emit a gate, any other string emits nothing.
add_error_gate(b, q, gate) ==
    IF gate = "z" THEN Emit(b, << Op("z", <<q>>) >>)
    ELSE IF gate = "x" THEN Emit(b, << Op("x", <<q>>) >>)
    ELSE b

\* add_error(qubit, error_gate), qubit = (group, index).  The ancilla lookup
\* self.anc_qubit[group - 1][index - 1] is a Python sequence lookup: a
\* negative position counts from the end and a position outside the register
\* raises IndexError.
add_error(b, qubit, error_gate) ==
    LET g == qubit[1]
        i == qubit[2]
    IN  IF g \notin {1, 2} THEN Ret(b, "ValueError", 0)
        ELSE IF (Len(b.anc_qubit) > 0 /\ i > b.anc_qubit[g])
                \/ (Len(b.anc_qubit) = 0 /\ i # 0)
        THEN Ret(b, "ValueError", 0)
        ELSE IF i = 0 THEN Ret(add_error_gate(b, Primary(g), error_gate), "none", 0)
        ELSE LET size == b.anc_qubit[g]
                 k == i - 1
             IN  IF k >= 0 THEN Ret(add_error_gate(b, Anc(b, g, k), error_gate), "none", 0)
                 ELSE IF size + k >= 0
                 THEN Ret(add_error_gate(b, Anc(b, g, size + k), error_gate), "none", 0)
                 ELSE Ret(b, "IndexError", 0)

\* Mutant of add_measurement: the Hadamard before the measurement left out.
add_measurement_NoHadamard(b, in_pace) ==
    CopyAppend(b, << Op("cx", <<0, 1>>),
                     Op("measure", <<0, 0>>), Op("measure", <<1, 1>>) >>, in_pace)

add_measurement(b, in_pace) ==
    CopyAppend(b, << Op("cx", <<0, 1>>), Op("h", <<0>>),
                     Op("measure", <<0, 0>>), Op("measure", <<1, 1>>) >>, in_pace)


\* The barrier instruction (over all qubits).
Barrier == Op("barrier", << >>)

\* circuit.cx(control, targets[from:]) broadcast over the ancillas with
\* 0-based indices from..to of one register.
RECURSIVE CxRange(_, _, _, _, _)
CxRange(b, g, ctl, from, to) ==
    IF from > to THEN << >>
    ELSE << Op("cx", <<ctl, Anc(b, g, from)>>) >> \o CxRange(b, g, ctl, from + 1, to)

\* _prepare_repetition(self.qubits[g - 1], self.anc_qubit[g - 1])
_prepare_repetition(b, g) ==
    LET q == Primary(g)
        a(k) == Anc(b, g, k)
    IN  Emit(b, << Op("cx", <<q, a(2)>>), Op("cx", <<q, a(5)>>),
                   Op("h", <<q>>), Op("h", <<a(2)>>), Op("h", <<a(5)>>),
                   Barrier >>
                \o CxRange(b, g, q, 0, 1)
                \o CxRange(b, g, a(2), 3, 4)
                \o CxRange(b, g, a(5), 6, b.anc_qubit[g] - 1)
                \o << Barrier >>)

\* Mutant of _add_shor_correction: the phase-flip majority vote left out.
_add_shor_correction_NoPhaseVote(b, g) ==
    LET q == Primary(g)
        a(k) == Anc(b, g, k)
    IN  Emit(b, CxRange(b, g, q, 0, 1)
                \o CxRange(b, g, a(2), 3, 4)
                \o CxRange(b, g, a(5), 6, b.anc_qubit[g] - 1)
                \o << Barrier,
                      Op("ccx", <<a(0), a(1), q>>),
                      Op("ccx", <<a(3), a(4), a(2)>>),
                      Op("ccx", <<a(6), a(7), a(5)>>),
                      Barrier,
                      Op("h", <<q>>), Op("h", <<a(2)>>), Op("h", <<a(5)>>),
                      Op("cx", <<q, a(2)>>), Op("cx", <<q, a(5)>>),
                      Barrier,
                      Barrier >>)

\* _add_shor_correction(self.qubits[g - 1], self.anc_qubit[g - 1])
_add_shor_correction(b, g) ==
    LET q == Primary(g)
        a(k) == Anc(b, g, k)
    IN  Emit(b, CxRange(b, g, q, 0, 1)
                \o CxRange(b, g, a(2), 3, 4)
                \o CxRange(b, g, a(5), 6, b.anc_qubit[g] - 1)
                \o << Barrier,
                      Op("ccx", <<a(0), a(1), q>>),
                      Op("ccx", <<a(3), a(4), a(2)>>),
                      Op("ccx", <<a(6), a(7), a(5)>>),
                      Barrier,
                      Op("h", <<q>>), Op("h", <<a(2)>>), Op("h", <<a(5)>>),
                      Op("cx", <<q, a(2)>>), Op("cx", <<q, a(5)>>),
                      Barrier,
                      Op("ccx", <<a(2), a(5), q>>),
                      Barrier >>)

\* for qubit, error in errors: self.add_error(qubit, error)
\* An error is <<(group, index), gate>>; the first exception ends the loop.
RECURSIVE AddErrors(_, _)
AddErrors(b, errors) ==
    IF errors = << >> THEN Ret(b, "none", 0)
    ELSE Bind(add_error(b, errors[1][1], errors[1][2]),
              LAMBDA r : IF r.exc # "none" THEN r ELSE AddErrors(r.b, Tail(errors)))

\* [self.qubits[g - 1]] + self.anc_qubit[g - 1][:]
RECURSIVE AncList(_, _, _)
AncList(b, g, k) ==
    IF k >= b.anc_qubit[g] THEN << >> ELSE <<Anc(b, g, k)>> \o AncList(b, g, k + 1)

\* The symbolic error markers: an opaque instruction of `width` qubits per
\* group; appending it to another number of qubits raises CircuitError.
SymbErrors(b, width) ==
    LET qs(g) == IF width = 1 THEN <<Primary(g)>> ELSE <<Primary(g)>> \o AncList(b, g, 0)
    IN  IF Len(qs(1)) # width THEN Ret(b, "CircuitError", 0)
        ELSE Bind(Emit(b, << Op("err_1", qs(1)) >>),
                  LAMBDA b1 : IF Len(qs(2)) # width THEN Ret(b1, "CircuitError", 0)
                              ELSE Ret(Emit(b1, << Op("err_2", qs(2)), Barrier >>), "none", 0))

\* The error stage shared by the four assembly procedures.
ErrorStage(b, errors, symb_err, width) ==
    IF symb_err THEN SymbErrors(b, width)
    ELSE Bind(AddErrors(b, errors),
              LAMBDA r : IF r.exc # "none" THEN r ELSE Ret(Emit(r.b, << Barrier >>), "none", 0))

\* The guard opening the three correcting assembly procedures:
\* self.anc_qubit[0].size < need or self.anc_qubit[1].size < need.
AssemblyCheck(b, need) ==
    IF Len(b.anc_qubit) = 0 THEN "IndexError"
    ELSE IF b.anc_qubit[1] < need \/ b.anc_qubit[2] < need THEN "Exception"
    ELSE "none"

\* Mutant of Entangle: no barrier between the entangling cx and the measurement.
Entangle_NoBarrier(b) ==
    Bind(Emit(b, << Op("cx", <<0, 1>>) >>), LAMBDA b1 : add_measurement(b1, TRUE))

\* The closing stages: entangling cx, barrier, add_measurement().
Entangle(b) ==
    Bind(Emit(b, << Op("cx", <<0, 1>>), Barrier >>), LAMBDA b1 : add_measurement(b1, TRUE))

\* A stage that cannot raise, run on the builder a finished stage left.
Then(r, Stage(_)) ==
    IF r.exc # "none" THEN r ELSE Bind(r.b, LAMBDA b : Bind(Stage(b), LAMBDA b1 : Ret(b1, "none", 0)))

create_circuit_with_no_correction(b, errors, symb_err) ==
    Bind(Emit(b, << Op("h", <<0>>), Barrier >>), LAMBDA b1 :
    Bind(ErrorStage(b1, errors, symb_err, 1), LAMBDA r2 :
    Then(r2, LAMBDA b2 : Entangle(b2).b)))

create_circuit_with_simple_correction(b, errors, symb_err) ==
    IF AssemblyCheck(b, 1) # "none" THEN Ret(b, AssemblyCheck(b, 1), 0)
    ELSE
    Bind(Emit(b, << Op("h", <<0>>), Barrier >>), LAMBDA b1 :
    Bind(ErrorStage(b1, errors, symb_err, 1), LAMBDA r2 :
    Bind(Then(r2, LAMBDA b2 : Emit(add_x_pf_corr(b2, 1, TRUE).b, << Barrier >>)), LAMBDA r3 :
    Bind(Then(r3, LAMBDA b3 : Emit(add_zero_bf_corr(b3, 2, TRUE).b, << Barrier >>)), LAMBDA r4 :
    Then(r4, LAMBDA b4 : Entangle(b4).b)))))

create_circuit_with_simple_repetition(b, errors, symb_err) ==
    IF AssemblyCheck(b, 2) # "none" THEN Ret(b, AssemblyCheck(b, 2), 0)
    ELSE
    Bind(Emit(b, << Op("h", <<0>>), Barrier >>), LAMBDA b1 :
    Bind(ErrorStage(b1, errors, symb_err, 3), LAMBDA r2 :
    Bind(Then(r2, LAMBDA b2 :
              Emit(add_x_pf_corr_with_repetition(b2, 1, TRUE).b, << Barrier >>)), LAMBDA r3 :
    Bind(Then(r3, LAMBDA b3 :
              Emit(add_zero_bf_corr_with_repetition(b3, 2, TRUE).b, << Barrier >>)), LAMBDA r4 :
    Then(r4, LAMBDA b4 : Entangle(b4).b)))))

create_circuit_with_shor_correction(b, errors, symb_err) ==
    IF AssemblyCheck(b, 8) # "none" THEN Ret(b, AssemblyCheck(b, 8), 0)
    ELSE
    Bind(Emit(b, << Op("h", <<0>>), Barrier >>), LAMBDA b1 :
    Bind(_prepare_repetition(b1, 1), LAMBDA b2 :
    Bind(_prepare_repetition(b2, 2), LAMBDA b3 :
    Bind(ErrorStage(b3, errors, symb_err, 9), LAMBDA r4 :
    Bind(Then(r4, LAMBDA b4 : _add_shor_correction(b4, 1)), LAMBDA r5 :
    Bind(Then(r5, LAMBDA b5 : _add_shor_correction(b5, 2)), LAMBDA r6 :
    Then(r6, LAMBDA b6 : Entangle(b6).b)))))))

(***************************************************************************)
(* The backend: execute(circuit, backend, shots=1000).result().get_counts() *)
(***************************************************************************)

\* A state vector is a function from the basis states of its support (a
\* basis state is the number whose binary digits are the qubits' values) to
\* nonzero integer amplitudes.
Bit(s, q) == (s \div (2 ^ q)) % 2
Flip(s, q) == IF Bit(s, q) = 1 THEN s - 2 ^ q ELSE s + 2 ^ q
Amp(psi, s) == IF s \in DOMAIN psi THEN psi[s] ELSE 0

\* A gate that permutes the basis states by the involution f.
Permute(psi, f(_)) == [s \in {f(t) : t \in DOMAIN psi} |-> psi[f(s)]]

ApplyX(psi, q) == LET f(s) == Flip(s, q) IN Permute(psi, f)
ApplyCX(psi, c, t) == LET f(s) == IF Bit(s, c) = 1 THEN Flip(s, t) ELSE s IN Permute(psi, f)
ApplyCCX(psi, c1, c2, t) ==
    LET f(s) == IF Bit(s, c1) = 1 /\ Bit(s, c2) = 1 THEN Flip(s, t) ELSE s IN Permute(psi, f)
ApplyZ(psi, q) == [s \in DOMAIN psi |-> IF Bit(s, q) = 1 THEN -psi[s] ELSE psi[s]]

\* Hadamard, without its factor 1/sqrt(2): |0> -> |0> + |1>, |1> -> |0> - |1>.
ApplyH(psi, q) ==
    LET cand == UNION {{s, Flip(s, q)} : s \in DOMAIN psi}
        val(s) == IF Bit(s, q) = 0
                  THEN Amp(psi, s) + Amp(psi, Flip(s, q))
                  ELSE Amp(psi, Flip(s, q)) - Amp(psi, s)
    IN  [s \in {t \in cand : val(t) # 0} |-> val(s)]

ApplyOp(psi, o) ==
    CASE o.op = "h" -> ApplyH(psi, o.qs[1])
      [] o.op = "x" -> ApplyX(psi, o.qs[1])
      [] o.op = "z" -> ApplyZ(psi, o.qs[1])
      [] o.op = "cx" -> ApplyCX(psi, o.qs[1], o.qs[2])
      [] o.op = "ccx" -> ApplyCCX(psi, o.qs[1], o.qs[2], o.qs[3])
      [] OTHER -> psi

\* The same function, with its values computed once and stored.
Tabulated(f) == f @@ << >>

\* The state vector after instructions lo..hi of a circuit applied to psi, in
\* order (split in halves to keep the evaluation shallow).
RECURSIVE EvolveRange(_, _, _, _)
EvolveRange(psi, circ, lo, hi) ==
    IF lo > hi THEN psi
    ELSE IF lo = hi THEN Tabulated(ApplyOp(psi, circ[lo]))
    ELSE Bind(EvolveRange(psi, circ, lo, (lo + hi) \div 2),
              LAMBDA half : EvolveRange(half, circ, (lo + hi) \div 2 + 1, hi))

\* The state vector after the first k instructions of a circuit run on |0...0>.
Evolve(circ, k) == Bind((0 :> 1), LAMBDA psi0 : EvolveRange(psi0, circ, 1, k))

\* The qubit whose measurement classical bit c holds after the first k
\* instructions (-1: the bit was never written and reads 0).
RECURSIVE MeasuredInto(_, _, _)
MeasuredInto(circ, c, k) ==
    IF k = 0 THEN -1
    ELSE IF circ[k].op = "measure" /\ circ[k].qs[2] = c THEN circ[k].qs[1]
    ELSE MeasuredInto(circ, c, k - 1)

\* get_counts() keys: classical bit 1 first, then classical bit 0.
BitString(c1, c0) ==
    IF c1 = 0 THEN (IF c0 = 0 THEN "00" ELSE "01") ELSE (IF c0 = 0 THEN "10" ELSE "11")

\* The bitstrings a shot of the circuit can produce: those of the basis states
\* with nonzero amplitude in the final state.
Outcomes(circ) ==
    LET q0 == MeasuredInto(circ, 0, Len(circ))
        q1 == MeasuredInto(circ, 1, Len(circ))
        val(s, q) == IF q < 0 THEN 0 ELSE Bit(s, q)
    IN  Bind(Evolve(circ, Len(circ)),
             LAMBDA psi : {BitString(val(s, q1), val(s, q0)) : s \in DOMAIN psi})

\* shots=1000 in execute(...).
Shots == 1000

\* Granularity of the sampled shot splits: a circuit with several possible
\* bitstrings yields any split of the shots among them in steps of
\* Shots / ShotSplit.
ShotSplit == 4

RECURSIVE SumOver(_, _)
SumOver(f, S) ==
    IF S = {} THEN 0
    ELSE LET k == CHOOSE k \in S : TRUE IN f[k] + SumOver(f, S \ {k})

\* Sum of the values of a counts mapping.
Total(counts) == SumOver(counts, DOMAIN counts)

\* The counts mappings the backend can return for a circuit: every bitstring
\* it reports was possible and was seen at least once, and the values sum to
\* the number of shots.  The simulator is not seeded, so which one is
\* returned is not determined.
PossibleCounts(circ) ==
    LET grid == {k * (Shots \div ShotSplit) : k \in 1..ShotSplit} \cup {Shots}
    IN  Bind(Outcomes(circ), LAMBDA outs :
             IF Cardinality(outs) = 1 THEN {[o \in outs |-> Shots]}
             ELSE UNION {{c \in [T -> grid] : Total(c) = Shots} : T \in SUBSET outs \ {{}}})

(***************************************************************************)
(* simulations.py                                                          *)
(***************************************************************************)

\* f'[({i1}, {g1}), ({i2}, {g2})]'
ErrorKey(i1, g1, i2, g2) ==
    "[(" \o ToString(i1) \o ", " \o g1 \o "), (" \o ToString(i2) \o ", " \o g2 \o ")]"

\* Mutant of run_one_combination: the simple scheme takes the requested
\* indices like the other schemes.
run_one_combination_NoCoercion(n_ancillas, correction_type, errors) ==
    Bind(BellCircuit(n_ancillas, n_ancillas), LAMBDA qc :
    Bind(IF correction_type = "simple"
         THEN create_circuit_with_simple_correction(qc, errors, FALSE)
         ELSE IF correction_type = "repetition_simple"
         THEN create_circuit_with_simple_repetition(qc, errors, FALSE)
         ELSE IF correction_type = "shor"
         THEN create_circuit_with_shor_correction(qc, errors, FALSE)
         ELSE create_circuit_with_no_correction(qc, errors, FALSE),
         LAMBDA r :
    [exc |-> r.exc,
     error |-> ErrorKey(errors[1][1][2], errors[1][2], errors[2][1][2], errors[2][2]),
     circuit |-> r.b.heap[r.b.circuit]]))

\* run_one_combination up to the call of execute: the exception raised while
\* building ("none" otherwise), the error string and the circuit handed to
\* the backend.  errors = << <<(group, index), gate>>, <<(group, index), gate>> >>.
run_one_combination(n_ancillas, correction_type, errors) ==
    Bind(BellCircuit(n_ancillas, n_ancillas), LAMBDA qc :
    Bind(IF correction_type = "simple"
         THEN create_circuit_with_simple_correction(
                  qc, << << <<1, 0>>, errors[1][2] >>, << <<2, 0>>, errors[2][2] >> >>, FALSE)
         ELSE IF correction_type = "repetition_simple"
         THEN create_circuit_with_simple_repetition(qc, errors, FALSE)
         ELSE IF correction_type = "shor"
         THEN create_circuit_with_shor_correction(qc, errors, FALSE)
         ELSE create_circuit_with_no_correction(qc, errors, FALSE),
         LAMBDA r :
    [exc |-> r.exc,
     error |-> IF correction_type = "simple"
               THEN ErrorKey(0, errors[1][2], 0, errors[2][2])
               ELSE ErrorKey(errors[1][1][2], errors[1][2], errors[2][1][2], errors[2][2]),
     circuit |-> r.b.heap[r.b.circuit]]))

\* counts added into all_counts (a defaultdict(int)).
AddCounts(acc, counts) ==
    [k \in DOMAIN acc \cup DOMAIN counts |->
        (IF k \in DOMAIN acc THEN acc[k] ELSE 0) + (IF k \in DOMAIN counts THEN counts[k] ELSE 0)]

\* errors = ['i', 'x', 'z']
errors_list == <<"i", "x", "z">>

\* The values of the correction argument (main.py) and the ancilla count
\* main.py derives from each.
CorrectionTypes == {"no_correction", "simple", "repetition_simple", "shor"}
AncillasFor(correction_type) ==
    IF correction_type = "simple" THEN 1
    ELSE IF correction_type = "repetition_simple" THEN 2
    ELSE IF correction_type = "shor" THEN 8
    ELSE 0
AncillaCounts == {AncillasFor(c) : c \in CorrectionTypes}

\* Values of the variables a driver does not use.
Idle == [none |-> TRUE]

(***************************************************************************)
(* run_all_combinations(n_ancillas, correction_type)                       *)
(***************************************************************************)

\* The error pair of the innermost loop body at the loop position
\* (qubit_group_1, qubit_group_2, index of err_1, index of err_2).
LoopErrors(l) ==
    << << <<1, l[1]>>, errors_list[l[3]] >>, << <<2, l[2]>>, errors_list[l[4]] >> >>

\* The next position of the four nested loops (err_2 innermost); the first
\* component passes n_ancillas when the loops are exhausted.
LoopAdvance(l, n_ancillas) ==
    IF l[4] < 3 THEN <<l[1], l[2], l[3], l[4] + 1>>
    ELSE IF l[3] < 3 THEN <<l[1], l[2], l[3] + 1, 1>>
    ELSE IF l[2] < n_ancillas THEN <<l[1], l[2] + 1, 1, 1>>
    ELSE <<l[1] + 1, 0, 1, 1>>

InitAll ==
    /\ mode = "all"
    /\ pc = "loop"
    /\ inp \in [n_ancillas : AncillaCounts, correction_type : CorrectionTypes]
    /\ loop = <<0, 0, 1, 1>>
    /\ all_counts = << >>
    /\ err_to_counts = << >>
    /\ executions = 0
    /\ last = Idle
    /\ bld = Idle
    /\ rng = Idle
    /\ runs = << >>

\* Mutant of Seen: no key is ever taken as seen.
Seen_Never(etc, error) == FALSE

\* Whether a key is already in err_to_counts.
Seen(etc, error) == error \in DOMAIN etc

\* One pass through the body of the innermost loop: run the combination, then
\* skip a key already present, else add the counts and store them.
AllIteration ==
    /\ mode = "all" /\ pc = "loop"
    /\ loop[1] <= inp.n_ancillas
    /\ \E r \in {run_one_combination(inp.n_ancillas, inp.correction_type, LoopErrors(loop))} :
           /\ r.exc = "none"
           /\ \E counts \in PossibleCounts(r.circuit) :
                /\ executions' = executions + 1
                /\ last' = [errors |-> LoopErrors(loop), exc |-> "none", error |-> r.error,
                            circuit |-> r.circuit, counts |-> counts,
                            skipped |-> Seen(err_to_counts, r.error)]
                /\ IF Seen(err_to_counts, r.error)
                   THEN UNCHANGED <<all_counts, err_to_counts>>
                   ELSE /\ all_counts' = AddCounts(all_counts, counts)
                        /\ err_to_counts' = (r.error :> counts) @@ err_to_counts
    /\ loop' = LoopAdvance(loop, inp.n_ancillas)
    /\ UNCHANGED <<mode, pc, inp, bld, rng, runs>>

\* The combination raises while its circuit is built: the exception leaves
\* run_all_combinations.
AllRaise ==
    /\ mode = "all" /\ pc = "loop"
    /\ loop[1] <= inp.n_ancillas
    /\ \E r \in {run_one_combination(inp.n_ancillas, inp.correction_type, LoopErrors(loop))} :
           /\ r.exc # "none"
           /\ last' = [errors |-> LoopErrors(loop), exc |-> r.exc, error |-> r.error,
                       circuit |-> r.circuit, counts |-> << >>, skipped |-> FALSE]
    /\ pc' = "raised"
    /\ UNCHANGED <<mode, inp, loop, all_counts, err_to_counts, executions, bld, rng, runs>>

\* return all_counts, err_to_counts
AllReturn ==
    /\ mode = "all" /\ pc = "loop"
    /\ loop[1] > inp.n_ancillas
    /\ pc' = "done"
    /\ UNCHANGED <<mode, inp, loop, all_counts, err_to_counts, executions, last, bld, rng, runs>>

NextAll == AllIteration \/ AllRaise \/ AllReturn

SpecAll == InitAll /\ [][NextAll]_vars

(***************************************************************************)
(* run_one_combination called on its own (main.py, --error)                *)
(***************************************************************************)

\* Requested indices range over -NegIndex..MaxIndex.
NegIndex == 1
MaxIndex == 9

\* Gate strings handed in: the three of errors_list and one that is none of them.
GateStrings == {"i", "x", "z", "y"}

InitOne ==
    /\ mode = "one"
    /\ pc = "call"
    /\ \E n \in AncillaCounts, c \in CorrectionTypes,
          i1 \in (0 - NegIndex)..MaxIndex, i2 \in (0 - NegIndex)..MaxIndex,
          g1 \in GateStrings, g2 \in GateStrings :
            inp = [n_ancillas |-> n, correction_type |-> c,
                   errors |-> << << <<1, i1>>, g1 >>, << <<2, i2>>, g2 >> >>]
    /\ loop = << >>
    /\ all_counts = << >>
    /\ err_to_counts = << >>
    /\ executions = 0
    /\ last = Idle
    /\ bld = Idle
    /\ rng = Idle
    /\ runs = << >>

\* counts, error = run_one_combination(...); err_to_counts = {error: counts}
OneCall ==
    /\ mode = "one" /\ pc = "call"
    /\ \E r \in {run_one_combination(inp.n_ancillas, inp.correction_type, inp.errors)} :
           /\ r.exc = "none"
           /\ \E counts \in PossibleCounts(r.circuit) :
                /\ executions' = executions + 1
                /\ last' = [errors |-> inp.errors, exc |-> "none", error |-> r.error,
                            circuit |-> r.circuit, counts |-> counts, skipped |-> FALSE]
                /\ all_counts' = counts
                /\ err_to_counts' = (r.error :> counts)
    /\ pc' = "done"
    /\ UNCHANGED <<mode, inp, loop, bld, rng, runs>>

OneRaise ==
    /\ mode = "one" /\ pc = "call"
    /\ \E r \in {run_one_combination(inp.n_ancillas, inp.correction_type, inp.errors)} :
           /\ r.exc # "none"
           /\ last' = [errors |-> inp.errors, exc |-> r.exc, error |-> r.error,
                       circuit |-> r.circuit, counts |-> << >>, skipped |-> FALSE]
    /\ pc' = "raised"
    /\ UNCHANGED <<mode, inp, loop, all_counts, err_to_counts, executions, bld, rng, runs>>

NextOne == OneCall \/ OneRaise

SpecOne == InitOne /\ [][NextOne]_vars

\* Both drivers of a single process run: one combination, or all of them.
SpecDrive == (InitOne \/ InitAll) /\ [][NextOne \/ NextAll]_vars

(***************************************************************************)
(* A BellCircuit object used directly: construction, then calls of its     *)
(* public methods in any order (an exception leaves the object usable).    *)
(***************************************************************************)

\* Number of method calls made on one object.
MaxCalls == 2

Gadgets == {"add_zero_bf_corr", "add_x_pf_corr",
            "add_zero_bf_corr_with_repetition", "add_x_pf_corr_with_repetition"}

Assemblies == {"create_circuit_with_no_correction", "create_circuit_with_simple_correction",
               "create_circuit_with_simple_repetition", "create_circuit_with_shor_correction"}

\* Ancillas each gadget and each assembly procedure requires.
Required(name) ==
    IF name \in {"add_zero_bf_corr", "add_x_pf_corr", "create_circuit_with_simple_correction"}
    THEN 1
    ELSE IF name \in {"add_zero_bf_corr_with_repetition", "add_x_pf_corr_with_repetition",
                      "create_circuit_with_simple_repetition"}
    THEN 2
    ELSE IF name = "create_circuit_with_shor_correction" THEN 8
    ELSE 0

\* Group selectors tried: the two valid ones and one on each side.
Selectors == 0..3

\* Error lists handed to the assembly procedures.
AssemblyErrors ==
    { << << <<1, 0>>, "i" >>, << <<2, 0>>, "i" >> >>,
      << << <<1, 0>>, "z" >>, << <<2, 1>>, "x" >> >>,
      << << <<1, 2>>, "x" >>, << <<2, 9>>, "z" >> >> }

CallGadgetOp(b, name, qubit, in_place) ==
    IF name = "add_zero_bf_corr" THEN add_zero_bf_corr(b, qubit, in_place)
    ELSE IF name = "add_x_pf_corr" THEN add_x_pf_corr(b, qubit, in_place)
    ELSE IF name = "add_zero_bf_corr_with_repetition"
    THEN add_zero_bf_corr_with_repetition(b, qubit, in_place)
    ELSE add_x_pf_corr_with_repetition(b, qubit, in_place)

CallAssemblyOp(b, name, errors, symb_err) ==
    IF name = "create_circuit_with_simple_correction"
    THEN create_circuit_with_simple_correction(b, errors, symb_err)
    ELSE IF name = "create_circuit_with_simple_repetition"
    THEN create_circuit_with_simple_repetition(b, errors, symb_err)
    ELSE IF name = "create_circuit_with_shor_correction"
    THEN create_circuit_with_shor_correction(b, errors, symb_err)
    ELSE create_circuit_with_no_correction(b, errors, symb_err)

InitBuild ==
    /\ mode = "build"
    /\ pc = 0
    /\ inp \in [n_anc_qubit1 : AncillaCounts, n_anc_qubit2 : AncillaCounts]
    /\ bld = BellCircuit(inp.n_anc_qubit1, inp.n_anc_qubit2)
    /\ last = Idle
    /\ loop = << >>
    /\ all_counts = << >>
    /\ err_to_counts = << >>
    /\ executions = 0
    /\ rng = Idle
    /\ runs = << >>

\* What a call did: its name and arguments, the object before it (pre), the
\* exception and the returned circuit.  The caller held a reference to the
\* object's current circuit before the call: pre.circuit.
Called(name, args, flag, r) ==
    /\ last' = [call |-> name, args |-> args, in_place |-> flag, pre |-> bld,
                exc |-> r.exc, ret |-> r.ret]
    /\ bld' = r.b
    /\ pc' = pc + 1
    /\ UNCHANGED <<mode, inp, loop, all_counts, err_to_counts, executions, rng, runs>>

CallGadget ==
    /\ mode = "build" /\ pc < MaxCalls
    /\ \E name \in Gadgets, qubit \in Selectors, in_place \in BOOLEAN :
         \E r \in {CallGadgetOp(bld, name, qubit, in_place)} :
            Called(name, <<qubit>>, in_place, r)

CallAddError ==
    /\ mode = "build" /\ pc < MaxCalls
    /\ \E g \in Selectors, i \in (0 - NegIndex)..MaxIndex, gate \in GateStrings :
         \E r \in {add_error(bld, <<g, i>>, gate)} :
            Called("add_error", <<g, i, gate>>, TRUE, r)

CallAddMeasurement ==
    /\ mode = "build" /\ pc < MaxCalls
    /\ \E in_pace \in BOOLEAN :
         \E r \in {add_measurement(bld, in_pace)} :
            Called("add_measurement", << >>, in_pace, r)

CallAssembly ==
    /\ mode = "build" /\ pc < MaxCalls
    /\ \E name \in Assemblies, errors \in AssemblyErrors, symb_err \in BOOLEAN :
         \E r \in {CallAssemblyOp(bld, name, errors, symb_err)} :
            Called(name, <<errors, symb_err>>, TRUE, r)

NextBuild == CallGadget \/ CallAddError \/ CallAddMeasurement \/ CallAssembly

SpecBuild == InitBuild /\ [][NextBuild]_vars

\* One combination run by the driver, or an object used directly.
SpecGate == (InitOne \/ InitBuild) /\ [][NextOne \/ NextBuild]_vars

(***************************************************************************)
(* run_random_errors(n_ancillas, correction_type, iterations,              *)
(*                   probabilities, seed)                                  *)
(* The random module keeps one generator for the whole process.  It is     *)
(* modelled as a generator with Modulus states: seeding with a value fixes *)
(* the state, seeding with None takes the state from the system's entropy, *)
(* and every draw advances the state by a fixed function.                  *)
(***************************************************************************)

Modulus == 7

\* Python's None, for the seed and the weights (a value is a tuple: a seed s
\* is <<s>>, weights are <<p_i, p_x, p_z>>).
None == << >>

\* Invocations made by one process, and iterations asked of one invocation.
MaxRuns == 3
MaxIter == 2

\* Mutant of SeedStates: the seed is not used.
SeedStates_Unseeded(seed) == 0..(Modulus - 1)

\* random.seed(seed): the states the generator can be left in.
SeedStates(seed) == IF seed = None THEN 0..(Modulus - 1) ELSE {(3 * seed[1] + 1) % Modulus}

\* The generator's state after one draw.
Advance(s) == (3 * s + 2) % Modulus

\* random.randint(0, n) drawn in state s (the value of the draw that leaves s).
RandInt(s, n) == s % (n + 1)

\* random.choices(errors, weights=probabilities)[0] drawn in state s, random()
\* being s / Modulus: without weights the element at floor(random() * 3), with
\* weights the bisection of random() * total in the cumulative weights.
Choice(s, probabilities) ==
    IF probabilities = None THEN errors_list[((3 * s) \div Modulus) + 1]
    ELSE LET total == probabilities[1] + probabilities[2] + probabilities[3]
             c1 == probabilities[1]
             c2 == probabilities[1] + probabilities[2]
         IN  errors_list[1 + (IF c1 * Modulus <= s * total THEN 1 ELSE 0)
                           + (IF c2 * Modulus <= s * total THEN 1 ELSE 0)]

\* The four draws of one iteration, from the state s the previous draw left:
\* the error pair sampled and the state left behind.
Sample(s, n_ancillas, probabilities) ==
    LET s1 == Advance(s)
        s2 == Advance(s1)
        s3 == Advance(s2)
        s4 == Advance(s3)
    IN  [errors |-> << << <<1, RandInt(s1, n_ancillas)>>, Choice(s3, probabilities) >>,
                       << <<2, RandInt(s2, n_ancillas)>>, Choice(s4, probabilities) >> >>,
         rng |-> s4]

\* Mutant of MergeCounts: the counts of the latest iteration replace the entry.
MergeCounts_Overwrite(etc, error, counts) == (error :> counts) @@ etc

\* err_to_counts after the counts of one iteration are merged under its key.
MergeCounts(etc, error, counts) ==
    IF error \in DOMAIN etc
    THEN [etc EXCEPT ![error] = AddCounts(@, counts)]
    ELSE (error :> counts) @@ etc

\* Arguments of the invocations.
RandomPairs == { <<0, "no_correction">>, <<1, "simple">>, <<2, "repetition_simple">>,
                 <<2, "shor">> }
Weights == {None, <<2, 1, 1>>}
Seeds == {None, <<1>>, <<2>>}

InitRandom ==
    /\ mode = "random"
    /\ pc = "idle"
    /\ rng \in 0..(Modulus - 1)
    /\ runs = [ref |-> Idle, finished |-> 0]
    /\ inp = Idle
    /\ loop = Idle
    /\ all_counts = << >>
    /\ err_to_counts = << >>
    /\ executions = 0
    /\ last = Idle
    /\ bld = Idle

\* The call: the accumulators are created and the generator is seeded.
RandomStart ==
    /\ mode = "random" /\ pc = "idle"
    /\ runs.finished < MaxRuns
    /\ \E p \in RandomPairs, it \in 1..MaxIter, w \in Weights, seed \in Seeds :
         /\ inp' = [n_ancillas |-> p[1], correction_type |-> p[2], iterations |-> it,
                    probabilities |-> w, seed |-> seed]
         /\ rng' \in SeedStates(seed)
    /\ loop' = [it |-> 0, samples |-> << >>]
    /\ all_counts' = << >>
    /\ err_to_counts' = << >>
    /\ executions' = 0
    /\ last' = Idle
    /\ pc' = "loop"
    /\ UNCHANGED <<mode, bld, runs>>

\* One pass through the loop body.
RandomIteration ==
    /\ mode = "random" /\ pc = "loop"
    /\ loop.it < inp.iterations
    /\ \E smp \in {Sample(rng, inp.n_ancillas, inp.probabilities)} :
       \E r \in {run_one_combination(inp.n_ancillas, inp.correction_type, smp.errors)} :
           /\ r.exc = "none"
           /\ rng' = smp.rng
           /\ loop' = [it |-> loop.it + 1, samples |-> Append(loop.samples, smp.errors)]
           /\ \E counts \in PossibleCounts(r.circuit) :
                /\ executions' = executions + 1
                /\ all_counts' = AddCounts(all_counts, counts)
                /\ err_to_counts' = MergeCounts(err_to_counts, r.error, counts)
    /\ UNCHANGED <<mode, pc, inp, last, bld, runs>>

\* What is kept of an invocation that returned.
RunRecord == [inp |-> inp, samples |-> loop.samples,
              all_counts |-> all_counts, err_to_counts |-> err_to_counts]

\* The invocation is over: the first one that returned is kept for comparison.
Finish(record) ==
    /\ pc' = "idle"
    /\ last' = record
    /\ runs' = [ref |-> IF runs.ref = Idle /\ record # Idle THEN record ELSE runs.ref,
                finished |-> runs.finished + 1]
    /\ inp' = Idle
    /\ loop' = Idle
    /\ all_counts' = << >>
    /\ err_to_counts' = << >>
    /\ executions' = 0

\* The combination raises: the exception leaves run_random_errors.
RandomRaise ==
    /\ mode = "random" /\ pc = "loop"
    /\ loop.it < inp.iterations
    /\ \E smp \in {Sample(rng, inp.n_ancillas, inp.probabilities)} :
       \E r \in {run_one_combination(inp.n_ancillas, inp.correction_type, smp.errors)} :
           /\ r.exc # "none"
           /\ rng' = smp.rng
    /\ Finish(Idle)
    /\ UNCHANGED <<mode, bld>>

\* return all_counts, err_to_counts
RandomReturn ==
    /\ mode = "random" /\ pc = "loop"
    /\ loop.it >= inp.iterations
    /\ Finish(RunRecord)
    /\ UNCHANGED <<mode, bld, rng>>

NextRandom == RandomStart \/ RandomIteration \/ RandomRaise \/ RandomReturn

SpecRandom == InitRandom /\ [][NextRandom]_vars

(***************************************************************************)
(* Properties of the drivers                                               *)
(***************************************************************************)

\* The run uses the ancilla count main.py derives from the correction type.
MainPair == inp.n_ancillas = AncillasFor(inp.correction_type)

\* A combination was just run (and did not raise).
Ran == mode \in {"one", "all"} /\ last # Idle /\ last.exc = "none"

AllZero == ("00" :> Shots)

\* C1: in exhaustive mode every canonical key is executed exactly once and a
\* configuration whose key was already seen is not executed: the number of
\* backend executions equals the number of keys of err_to_counts.
C1_ExecutedOncePerKey ==
    mode = "all" => executions = Cardinality(DOMAIN err_to_counts)

\* C2: when run_all_combinations returns, the total counts sum to 1000 times
\* the number of keys, each key's counts sum to 1000, and there are
\* (n_ancillas+1)^2 * 9 keys for no_correction (0), repetition_simple (2) and
\* shor (8), and 9 keys for simple (1).
C2_ShotTotals ==
    (mode = "all" /\ pc = "done") =>
        /\ Total(all_counts) = Shots * Cardinality(DOMAIN err_to_counts)
        /\ \A k \in DOMAIN err_to_counts : Total(err_to_counts[k]) = Shots
        /\ MainPair =>
             Cardinality(DOMAIN err_to_counts) =
                IF inp.correction_type = "simple" THEN 9
                ELSE (inp.n_ancillas + 1) * (inp.n_ancillas + 1) * 9

C2_Witness ==
    /\ mode = "all" /\ pc = "done"
    /\ inp.correction_type = "shor" /\ inp.n_ancillas = 8
    /\ Cardinality(DOMAIN err_to_counts) = 729
    /\ Total(all_counts) = 729000

\* The instructions of a circuit between its first and its second barrier
\* (the error stage of the circuits without repetition preparation).
RECURSIVE UpToBarrier(_, _)
UpToBarrier(circ, k) ==
    IF k > Len(circ) \/ circ[k] = Barrier THEN << >>
    ELSE <<circ[k]>> \o UpToBarrier(circ, k + 1)

\* The error instructions of gates g1 on primary qubit 1 and g2 on primary qubit 2.
PrimaryErrorOps(g1, g2) ==
    (IF g1 \in {"x", "z"} THEN << Op(g1, <<0>>) >> ELSE << >>)
    \o (IF g2 \in {"x", "z"} THEN << Op(g2, <<1>>) >> ELSE << >>)

\* C3: for the simple scheme run_one_combination ignores the requested
\* indices: whatever they are it raises nothing, injects the two gates on the
\* two primary qubits and returns the key '[(0, gate1), (0, gate2)]' (so pairs
\* differing only in indices get the same key); under exhaustive enumeration
\* every key holds the counts of a single 1000-shot run.
C3_SimpleIgnoresIndices ==
    (mode \in {"one", "all"} /\ inp.correction_type = "simple" /\ inp.n_ancillas >= 1) =>
        /\ pc # "raised"
        /\ last # Idle =>
             /\ last.exc = "none"
             /\ last.error = "[(0, " \o last.errors[1][2] \o "), (0, " \o last.errors[2][2] \o ")]"
             /\ UpToBarrier(last.circuit, 3) = PrimaryErrorOps(last.errors[1][2], last.errors[2][2])
        /\ \A k \in DOMAIN err_to_counts : Total(err_to_counts[k]) = Shots
        /\ mode = "all" =>
             /\ Cardinality(DOMAIN err_to_counts) <= 9
             /\ Total(all_counts) = Shots * Cardinality(DOMAIN err_to_counts)
             /\ pc = "done" => Cardinality(DOMAIN err_to_counts) = 9

\* An index beyond the ancilla count was requested of the simple scheme and
\* the call returned.
C3_Witness ==
    /\ mode = "one" /\ pc = "done"
    /\ inp.correction_type = "simple" /\ inp.n_ancillas = 1
    /\ inp.errors[1][1][2] = 3 /\ inp.errors[2][1][2] = 0 - 1
    /\ inp.errors[1][2] = "z" /\ inp.errors[2][2] = "x"
    /\ last.error = "[(0, z), (0, x)]"

\* A repeated key was met in exhaustive mode and skipped.
C3_WitnessSkip ==
    /\ mode = "all" /\ inp.correction_type = "simple" /\ inp.n_ancillas = 1
    /\ last # Idle /\ last.skipped

\* C7: for each of the four schemes with its ancilla count, the circuit built
\* with identity errors on both groups measures '00' on every shot.
C7_NoErrorAllZero ==
    (Ran /\ mode = "all" /\ MainPair /\ last.errors[1][2] = "i" /\ last.errors[2][2] = "i") =>
        last.counts = AllZero

C7_Witness ==
    /\ Ran /\ mode = "all" /\ MainPair /\ inp.correction_type = "shor"
    /\ last.errors[1][2] = "i" /\ last.errors[2][2] = "i"
    /\ last.errors[1][1][2] = 0 /\ last.errors[2][1][2] = 0
    /\ last.counts = AllZero

\* The last combination is a single error on a primary qubit of the
\* uncorrected circuit: gate g on group grp, identity on the other group.
SingleError(grp, g) ==
    /\ Ran /\ mode = "all" /\ inp.correction_type = "no_correction"
    /\ last.errors[1][1][2] = 0 /\ last.errors[2][1][2] = 0
    /\ last.errors[grp][2] = g /\ last.errors[3 - grp][2] = "i"

\* C8 as stated: without correction each single error x or z on either primary
\* qubit gives counts other than {'00': 1000}.
C8_EverySingleErrorObserved ==
    \A grp \in {1, 2}, g \in {"x", "z"} : SingleError(grp, g) => last.counts # AllZero

\* C8 amended: without correction a phase flip on primary qubit 1 gives
\* {'01': 1000} and a bit flip on primary qubit 2 gives {'10': 1000}; a bit
\* flip on primary qubit 1 and a phase flip on primary qubit 2 give
\* {'00': 1000}, as without error.
C8_ObservedErrors ==
    /\ SingleError(1, "z") => last.counts = ("01" :> Shots)
    /\ SingleError(2, "x") => last.counts = ("10" :> Shots)
    /\ SingleError(1, "x") => last.counts = AllZero
    /\ SingleError(2, "z") => last.counts = AllZero

C8_Witness == SingleError(1, "z") /\ inp.n_ancillas = 0 /\ last.counts = ("01" :> Shots)

\* C9: for simple (1 ancilla), repetition_simple (2) and shor (8), every pair
\* of gates from {i, x, z}, one per group, each on any element of its group
\* the enumeration reaches, measures '00' on every shot.
C9_SingleErrorsCorrected ==
    (Ran /\ mode = "all" /\ MainPair /\ inp.correction_type # "no_correction") =>
        last.counts = AllZero

C9_Witness ==
    /\ Ran /\ mode = "all" /\ MainPair /\ inp.correction_type = "shor"
    /\ last.errors = << << <<1, 4>>, "x" >>, << <<2, 8>>, "z" >> >>
    /\ last.counts = AllZero

(***************************************************************************)
(* Properties of the BellCircuit object                                    *)
(***************************************************************************)

\* A method was just called on the object.
CalledOne(names) == mode = "build" /\ last # Idle /\ last.call \in names

\* Ancillas allocated to a group of builder b (0 for a selector that names no group).
Allocated(b, g) == IF g \in {1, 2} /\ Len(b.anc_qubit) > 0 THEN b.anc_qubit[g] ELSE 0

\* The current circuit of builder b, as a sequence of instructions.
Current(b) == b.heap[b.circuit]

\* Sequence c extends sequence p by at least one instruction.
Extends(c, p) == Len(c) > Len(p) /\ SubSeq(c, 1, Len(p)) = p

\* C4: add_error((group, index), gate) fails with the validation error and
\* adds no gate when group is not 1 or 2, when index exceeds the group's
\* ancilla count, or when there are no ancillas and index is nonzero;
\* otherwise it succeeds, with the gate on the primary qubit for index 0 and
\* on the index-th ancilla for index > 0.
C4_AddErrorValidation ==
    CalledOne({"add_error"}) =>
        LET g == last.args[1]
            i == last.args[2]
            gate == last.args[3]
            pre == last.pre
            invalid == \/ g \notin {1, 2}
                       \/ (Len(pre.anc_qubit) > 0 /\ i > Allocated(pre, g))
                       \/ (Len(pre.anc_qubit) = 0 /\ i # 0)
            target == IF i = 0 THEN Primary(g) ELSE Anc(pre, g, i - 1)
        IN  IF invalid
            THEN last.exc = "ValueError" /\ bld = pre
            ELSE /\ last.exc = "none"
                 /\ (i >= 0 /\ gate \in {"x", "z"}) =>
                       Current(bld) = Current(pre) \o << Op(gate, <<target>>) >>

\* C4 for the indices 0 and above (the part of the claim the code meets).
C4_NonNegativeIndex ==
    (CalledOne({"add_error"}) /\ last.args[2] >= 0) => C4_AddErrorValidation

\* C5: every gadget and every correcting assembly procedure checks the group
\* selector and the required ancilla count before it emits a gate; on a
\* builder whose group has fewer ancillas than required (a builder without
\* ancillas included) it fails with the descriptive configuration error and
\* leaves the circuit unchanged.
C5_DescriptiveConfigurationError ==
    CalledOne(Gadgets \cup (Assemblies \ {"create_circuit_with_no_correction"})) =>
        LET pre == last.pre
            need == Required(last.call)
            short == IF last.call \in Gadgets
                     THEN last.args[1] \in {1, 2} /\ Allocated(pre, last.args[1]) < need
                     ELSE Allocated(pre, 1) < need \/ Allocated(pre, 2) < need
        IN  /\ (last.call \in Gadgets /\ last.args[1] \notin {1, 2}) =>
                  last.exc = "ValueError" /\ bld = pre
            /\ short => last.exc = "Exception" /\ bld = pre

\* C5, the part the code meets: a failed check leaves the object unchanged,
\* and with ancillas allocated the failure is the descriptive one.
C5_FailureLeavesCircuit ==
    CalledOne(Gadgets \cup (Assemblies \ {"create_circuit_with_no_correction"})) =>
        LET pre == last.pre
            need == Required(last.call)
            short == IF last.call \in Gadgets
                     THEN last.args[1] \in {1, 2} /\ Allocated(pre, last.args[1]) < need
                     ELSE Allocated(pre, 1) < need \/ Allocated(pre, 2) < need
        IN  short => /\ bld = pre
                     /\ last.exc = IF Len(pre.anc_qubit) = 0 THEN "IndexError" ELSE "Exception"

\* The effect the in-place flag selects, for a call that returned.
FlagDecides ==
    LET pre == last.pre IN
    /\ last.ret \in DOMAIN bld.heap /\ last.ret \notin DOMAIN pre.heap
    /\ Extends(bld.heap[last.ret], Current(pre))
    /\ bld.heap[pre.circuit] = Current(pre)
    /\ IF last.in_place THEN bld.circuit = last.ret ELSE bld.circuit = pre.circuit

\* C6 as stated: for every add-correction, add-error and add-measurement call
\* the in-place flag decides: false returns a new circuit with the gates and
\* leaves the current circuit as it was, true makes the extended circuit the
\* current one and leaves a snapshot taken before the call unmodified.
C6_FlagDecidesEveryAdd ==
    (CalledOne(Gadgets \cup {"add_error", "add_measurement"}) /\ last.exc = "none") =>
        LET pre == last.pre IN
        IF last.in_place
        THEN /\ Extends(Current(bld), Current(pre)) \/ Current(bld) = Current(pre)
             /\ bld.heap[pre.circuit] = Current(pre)
        ELSE /\ last.ret \in DOMAIN bld.heap /\ last.ret \notin DOMAIN pre.heap
             /\ Extends(bld.heap[last.ret], Current(pre))
             /\ bld.circuit = pre.circuit
             /\ Current(bld) = Current(pre)

\* C6 amended: the flag decides for the add-correction and add-measurement
\* calls; add_error has no flag, returns nothing and appends its gate to the
\* current circuit object itself, so that a snapshot taken before the call
\* shows the gate.
C6_FlagDecidesCorrectionAndMeasurement ==
    /\ (CalledOne(Gadgets \cup {"add_measurement"}) /\ last.exc = "none") => FlagDecides
    /\ (CalledOne({"add_error"}) /\ last.exc = "none") =>
          /\ last.ret = 0
          /\ bld.circuit = last.pre.circuit
          /\ bld.heap = [last.pre.heap EXCEPT ![last.pre.circuit] = Current(bld)]
          /\ last.args[3] \in {"x", "z"} =>
                /\ Extends(Current(bld), Current(last.pre))
                /\ Len(Current(bld)) = Len(Current(last.pre)) + 1

\* A correction added out of place to a circuit that already holds gates,
\* and an error gate added after a correction.
C6_Witness ==
    /\ CalledOne({"add_x_pf_corr_with_repetition"}) /\ last.exc = "none" /\ ~last.in_place
    /\ pc = 2 /\ Len(Current(last.pre)) > 0
    /\ Current(bld) = Current(last.pre)
    /\ Len(bld.heap[last.ret]) = Len(Current(bld)) + 5

(***************************************************************************)
(* Properties of run_random_errors                                         *)
(***************************************************************************)

\* An invocation just returned whose arguments are those of the reference
\* invocation, which returned earlier in the same process.
Repeated ==
    /\ mode = "random" /\ pc = "idle"
    /\ last # Idle /\ runs.ref # Idle /\ runs.finished >= 2
    /\ last.inp = runs.ref.inp

\* The two invocations sampled the same configurations and returned the same
\* total counts and the same err_to_counts.
SameResults ==
    /\ last.samples = runs.ref.samples
    /\ last.all_counts = runs.ref.all_counts
    /\ last.err_to_counts = runs.ref.err_to_counts

\* C10 as stated: two invocations with the same n_ancillas, scheme, seed,
\* iteration count and weights sample the same sequence of configurations and
\* return the same results, whatever ran in between.
C10_SameArgumentsSameResults == Repeated => SameResults

\* C10 amended: the same holds when the seed is a value; with seed None (no
\* seed given) the generator is seeded from the system's entropy and the two
\* invocations may differ.
C10_SameSeedValueSameResults == (Repeated /\ last.inp.seed # None) => SameResults

\* The same seeded invocation as first and third of a process, another
\* invocation in between.
C10_Witness ==
    /\ Repeated /\ runs.finished = 3
    /\ last.inp.seed = <<1>> /\ last.inp.iterations = 2
    /\ last.inp.correction_type = "repetition_simple"
    /\ Len(last.samples) = 2 /\ last.samples[1] # last.samples[2]
    /\ SameResults

\* The canonical key run_one_combination gives the i-th sampled configuration
\* of the invocation in progress.
SampledKey(i) ==
    run_one_combination(inp.n_ancillas, inp.correction_type, loop.samples[i]).error

\* The iterations so far that produced a key.
Producing(key) == {i \in 1..Len(loop.samples) : SampledKey(i) = key}

\* The count of a bitstring summed over the keys that hold it.
OverKeys(bits) ==
    LET holding == {k \in DOMAIN err_to_counts : bits \in DOMAIN err_to_counts[k]}
        perKey == [k \in holding |-> err_to_counts[k][bits]]
    IN  SumOver(perKey, holding)

\* C11: after k iterations of run_random_errors every sampled configuration
\* was executed once per time it was sampled and accumulated under its
\* canonical key: the total counts sum to 1000 * k, the counts under a key
\* sum to 1000 times the number of iterations that produced the key, and the
\* total count of every bitstring is the sum of its counts over all keys.
C11_RandomAccumulation ==
    (mode = "random" /\ pc = "loop") =>
        /\ Len(loop.samples) = loop.it
        /\ executions = loop.it
        /\ Total(all_counts) = Shots * loop.it
        /\ DOMAIN err_to_counts = {SampledKey(i) : i \in 1..loop.it}
        /\ \A key \in DOMAIN err_to_counts :
              Total(err_to_counts[key]) = Shots * Cardinality(Producing(key))
        /\ DOMAIN all_counts = UNION {DOMAIN err_to_counts[k] : k \in DOMAIN err_to_counts}
        /\ \A bits \in DOMAIN all_counts : all_counts[bits] = OverKeys(bits)

\* Two iterations sampled configurations with the same key, with an outcome
\* other than '00': the key holds 2000 shots.
C11_Witness ==
    /\ mode = "random" /\ pc = "loop" /\ loop.it = 2
    /\ inp.correction_type = "no_correction"
    /\ Cardinality(DOMAIN err_to_counts) = 1
    /\ \E key \in DOMAIN err_to_counts :
          /\ Cardinality(Producing(key)) = 2
          /\ err_to_counts[key] = ("01" :> 2 * Shots)
    /\ all_counts = ("01" :> 2 * Shots)

(***************************************************************************)
(* Properties of the constructor                                           *)
(***************************************************************************)

\* C12 as stated: whatever pair of counts the constructor is given, both
\* groups of the object have the same ancilla count, at construction and
\* after every call; with either requested count 0 neither group has one.
C12_SameCountBothGroups ==
    mode = "build" =>
        /\ Allocated(bld, 1) = Allocated(bld, 2)
        /\ (inp.n_anc_qubit1 = 0 \/ inp.n_anc_qubit2 = 0) =>
               Allocated(bld, 1) = 0 /\ Allocated(bld, 2) = 0

\* C12 amended: the ancilla counts are fixed at construction.  With either
\* requested count 0 neither group has an ancilla; with both positive each
\* group has the count requested for it, so the groups have the same count
\* exactly when the same count was requested for both.
C12_CountsFixedAtConstruction ==
    mode = "build" =>
        /\ (inp.n_anc_qubit1 = 0 \/ inp.n_anc_qubit2 = 0) =>
               Allocated(bld, 1) = 0 /\ Allocated(bld, 2) = 0
        /\ (inp.n_anc_qubit1 > 0 /\ inp.n_anc_qubit2 > 0) =>
               /\ Allocated(bld, 1) = inp.n_anc_qubit1
               /\ Allocated(bld, 2) = inp.n_anc_qubit2
        /\ (Allocated(bld, 1) = Allocated(bld, 2)) <=>
               \/ inp.n_anc_qubit1 = inp.n_anc_qubit2
               \/ inp.n_anc_qubit1 = 0 \/ inp.n_anc_qubit2 = 0

\* An object built with counts (2, 0) has no ancilla in either group, still so
\* after two calls that extended its circuit.
C12_Witness ==
    /\ mode = "build" /\ pc = 2
    /\ inp.n_anc_qubit1 = 2 /\ inp.n_anc_qubit2 = 0
    /\ Allocated(bld, 1) = 0 /\ Allocated(bld, 2) = 0
    /\ last.exc = "none" /\ Len(Current(bld)) >= 2

(***************************************************************************)
(* Properties of the assembled circuits                                    *)
(***************************************************************************)

\* The first call on a fresh object was an assembly procedure, and it returned.
Assembled ==
    /\ CalledOne(Assemblies) /\ pc = 1 /\ last.exc = "none"
    /\ Current(last.pre) = << >>

\* The pieces a circuit falls into when it is cut at its barriers.
RECURSIVE Segments(_)
Segments(c) ==
    LET bars == {i \in 1..Len(c) : c[i] = Barrier}
    IN  IF bars = {} THEN << c >>
        ELSE LET i == CHOOSE k \in bars : \A m \in bars : k <= m
             IN  << SubSeq(c, 1, i - 1) >> \o Segments(SubSeq(c, i + 1, Len(c)))

\* Every instruction of a piece is one of the named gates.
OnlyGates(seg, names) == \A i \in 1..Len(seg) : seg[i].op \in names

\* Barrier-separated pieces of the repetition preparation and of the
\* correction of an assembly procedure.
PreparationPieces(name) == IF name = "create_circuit_with_shor_correction" THEN 4 ELSE 0
CorrectionPieces(name) ==
    IF name = "create_circuit_with_shor_correction" THEN 8
    ELSE IF name = "create_circuit_with_no_correction" THEN 0
    ELSE 2

\* C13: the circuit an assembly procedure produces on a fresh object is, in
\* this order and with a barrier between consecutive stages: the Hadamard on
\* primary qubit 1, (shor only) the repetition preparation, the injected
\* errors, the correction (none without correction), the cx from primary 1 to
\* primary 2, the measurement step.  The errors lie in one piece before every
\* correction gate, and the two measurements, one per classical bit, occur
\* once each as the last two instructions.
C13_StageOrder ==
    Assembled =>
        LET c == Current(bld)
            segs == Segments(c)
            n == Len(segs)
            e == 2 + PreparationPieces(last.call)
            errors == last.args[1]
            symb_err == last.args[2]
        IN  /\ n = 4 + PreparationPieces(last.call) + CorrectionPieces(last.call)
            /\ segs[1] = << Op("h", <<0>>) >>
            /\ \A j \in 2..(e - 1) : segs[j] # << >> /\ OnlyGates(segs[j], {"cx", "h"})
            /\ IF symb_err
               THEN /\ Len(segs[e]) = 2
                    /\ segs[e][1].op = "err_1" /\ segs[e][1].qs[1] = Primary(1)
                    /\ segs[e][2].op = "err_2" /\ segs[e][2].qs[1] = Primary(2)
               ELSE /\ OnlyGates(segs[e], {"x", "z"})
                    /\ Len(segs[e]) =
                          Cardinality({k \in 1..Len(errors) : errors[k][2] \in {"x", "z"}})
            /\ \A j \in (e + 1)..(n - 2) :
                  segs[j] # << >> /\ OnlyGates(segs[j], {"cx", "ccx", "h"})
            /\ segs[n - 1] = << Op("cx", <<0, 1>>) >>
            /\ segs[n] = << Op("cx", <<0, 1>>), Op("h", <<0>>),
                            Op("measure", <<0, 0>>), Op("measure", <<1, 1>>) >>
            /\ {i \in 1..Len(c) : c[i].op = "measure"} = {Len(c) - 1, Len(c)}
            /\ c[Len(c) - 1].qs[2] = 0 /\ c[Len(c)].qs[2] = 1

\* The shor circuit with a phase flip on primary qubit 1 and a bit flip on the
\* first ancilla of group 2: sixteen pieces, the errors in the sixth.
C13_Witness ==
    /\ Assembled /\ last.call = "create_circuit_with_shor_correction"
    /\ last.args[2] = FALSE
    /\ Len(Segments(Current(bld))) = 16
    /\ Segments(Current(bld))[6] = << Op("z", <<0>>), Op("x", <<10>>) >>

\* The same for a circuit with the symbolic error markers.
C13_WitnessSymbolic ==
    /\ Assembled /\ last.call = "create_circuit_with_simple_repetition"
    /\ last.args[2] = TRUE
    /\ Len(Segments(Current(bld))) = 6

(***************************************************************************)
(* Properties of the error gate strings                                    *)
(***************************************************************************)

\* The gate add_error_gate applies for a string: the string itself for 'x'
\* and 'z', the identity for the others.
AsApplied(gate) == IF gate \in {"x", "z"} THEN gate ELSE "i"

\* An error list with every gate string replaced by the gate applied for it.
WithAppliedGates(errors) ==
    [k \in 1..Len(errors) |-> << errors[k][1], AsApplied(errors[k][2]) >>]

\* C14: the gate string is never validated.  add_error with a valid
\* (group, index) and a string other than 'x' and 'z' raises nothing and
\* emits nothing; run_one_combination builds for such strings the circuit of
\* the identity error, with the same outcome, and returns a key that holds
\* the strings as given, so a key other than the identity's.
C14_GateStringNotValidated ==
    /\ CalledOne({"add_error"}) =>
          LET g == last.args[1]
              i == last.args[2]
              gate == last.args[3]
          IN  (gate \notin {"x", "z"} /\ g \in {1, 2} /\ i >= 0 /\ i <= Allocated(last.pre, g))
                  => last.exc = "none" /\ bld = last.pre
    /\ (mode = "one" /\ pc \in {"done", "raised"}) =>
          \E r \in {run_one_combination(inp.n_ancillas, inp.correction_type,
                                        WithAppliedGates(inp.errors))} :
             LET simple == inp.correction_type = "simple"
                 i1 == IF simple THEN 0 ELSE inp.errors[1][1][2]
                 i2 == IF simple THEN 0 ELSE inp.errors[2][1][2]
             IN  /\ last.exc = r.exc
                 /\ last.circuit = r.circuit
                 /\ pc = "done" => last.counts \in PossibleCounts(r.circuit)
                 /\ last.error = ErrorKey(i1, inp.errors[1][2], i2, inp.errors[2][2])
                 /\ (WithAppliedGates(inp.errors) # inp.errors) => last.error # r.error

\* The shor circuit run with 'y' on an ancilla of group 1: the circuit and the
\* counts of the identity error, under the key that holds 'y'.
C14_Witness ==
    /\ mode = "one" /\ pc = "done"
    /\ inp.correction_type = "shor" /\ inp.n_ancillas = 8
    /\ inp.errors = << << <<1, 3>>, "y" >>, << <<2, 0>>, "i" >> >>
    /\ last.error = "[(3, y), (0, i)]"
    /\ last.counts = AllZero
    /\ \A k \in 1..Len(last.circuit) : last.circuit[k].op \notin {"x", "z"}

\* add_error called with 'y' for the second ancilla of group 2.
C14_WitnessAddError ==
    /\ CalledOne({"add_error"}) /\ last.args = <<2, 2, "y">>
    /\ Allocated(last.pre, 2) = 2
    /\ last.exc = "none" /\ bld = last.pre

=============================================================================
